---- MODULE Spec2Model ----
(***************************************************************************)
(* Model of cnocr/data_utils/transforms.py: the custom albumentations      *)
(* transforms (RandomStretchAug, CustomRandomCrop, TransparentOverlay,     *)
(* ToSingleChannelGray, CustomNormalize), the axis adapter transform_wrap  *)
(* and the two composed pipelines train_transform / test_transform.        *)
(*                                                                         *)
(* An ndarray is modelled by its shape (a sequence of dimensions) and,     *)
(* where values matter (the axis adapter and the channel reducer), by its  *)
(* data: a function from index tuples (0-based, as in numpy) to values.    *)
(* Ratios are kept in tenths (5 is 0.5), so int(n * ratio) is an integer   *)
(* division; random.random() is k / RandDen for k in 0 .. RandDen-1.       *)
(***************************************************************************)
EXTENDS Integers, Sequences, FiniteSets, TLC

VARIABLES pc, op, cfg, img, pix, mid, midpix, out, outpix, params, pos, log, err, tries

vars == <<pc, op, cfg, img, pix, mid, midpix, out, outpix, params, pos, log, err, tries>>

(***************************************************************************)
(* Bounds of the model.                                                    *)
(***************************************************************************)
\* sides of the images given to the single transforms: 0 .. MaxSide
MaxSide == 4
\* configured crop_size components: 0 .. MaxCrop
MaxCrop == 3
\* rejected iterations of cal_params that are counted (the counter saturates)
MaxTries == 2
\* resolution of random.random(): the draws are k / RandDen, k in 0 .. RandDen-1
RandDen == 4
\* sides of the arrays whose values are modelled: 1 .. MaxDim
MaxDim == 2
\* test patterns that fill those arrays: 0 .. MaxPattern
MaxPattern == 2
\* heights / widths of the images given to the stretch and to the overlay
MaxH == 2
MaxW == 11
\* heights of the images given to the pipelines
MaxPipeH == 1

NoShape == <<>>
NoPix == <<>>
NoParams == [none |-> TRUE]

Min(a, b) == IF a < b THEN a ELSE b
Max(a, b) == IF a > b THEN a ELSE b

\* int(n * ratio) for a ratio given in tenths and n >= 0
IntTimesTenths(n, tenths) == (n * tenths) \div 10

(***************************************************************************)
(* numpy / cv2 primitives, on shapes and on data.                          *)
(***************************************************************************)
\* the index tuples of an array of this shape (0-based)
Indices(shape) ==
    IF Len(shape) = 3
    THEN {<<i, j, k>> : i \in 0 .. shape[1] - 1, j \in 0 .. shape[2] - 1, k \in 0 .. shape[3] - 1}
    ELSE IF Len(shape) = 2
    THEN {<<i, j>> : i \in 0 .. shape[1] - 1, j \in 0 .. shape[2] - 1}
    ELSE {}

\* ndarray.transpose(axes): axis k of the result is axis axes[k] of the input
TransposeShape(shape, axes) == [k \in 1 .. Len(axes) |-> shape[axes[k] + 1]]

\* result[i0, i1, i2] = input[j] with j[axes[k]] = i[k]
TransposeIndex(idx, axes) ==
    [a \in 1 .. Len(axes) |-> idx[CHOOSE k \in 1 .. Len(axes) : axes[k] + 1 = a]]

TransposeData(shape, data, axes) ==
    [idx \in Indices(TransposeShape(shape, axes)) |-> data[TransposeIndex(idx, axes)]]

ToChannelLast == <<1, 2, 0>>
ToChannelFirst == <<2, 0, 1>>

\* cv2.resize(src, dsize): dsize is (width, height); an empty source or an empty
\* dsize raises cv2.error; a single-channel result comes back two-dimensional
cv2_resize(shape, dsize) ==
    IF shape[1] = 0 \/ shape[2] = 0 \/ dsize[1] <= 0 \/ dsize[2] <= 0
    THEN [err |-> "cv2.error", shape |-> NoShape]
    ELSE IF Len(shape) = 3 /\ shape[3] # 1
    THEN [err |-> "none", shape |-> <<dsize[2], dsize[1], shape[3]>>]
    ELSE [err |-> "none", shape |-> <<dsize[2], dsize[1]>>]

\* alb.Resize(height, width).apply(img): albumentations' resize returns the image
\* itself when the size is unchanged and otherwise calls cv2.resize with
\* dsize = (width, height), keeping the channel dimension
alb_Resize_apply(shape, height, width) ==
    IF height = shape[1] /\ width = shape[2]
    THEN [err |-> "none", shape |-> shape]
    ELSE LET r == cv2_resize(shape, <<width, height>>)
         IN  IF r.err # "none" THEN r
             ELSE [err |-> "none", shape |-> <<height, width, shape[3]>>]

\* channels of cv2.cvtColor's result, 0 when the conversion rejects the input
\* (each of the three conversions used here takes 3 or 4 channels)
cvtColor_channels(code, scn) ==
    IF scn \notin {3, 4} THEN 0
    ELSE IF code = "COLOR_BGR2BGRA" THEN 4
    ELSE IF code = "COLOR_BGRA2BGR" THEN 3
    ELSE 1

\* cv2's 8-bit RGB2GRAY: fixed-point luma of the first three channels
cvtColor_gray(r, g, b) == (r * 4899 + g * 9617 + b * 1868 + 8192) \div 16384

(***************************************************************************)
(* RandomStretchAug.apply                                                  *)
(***************************************************************************)
\* new_w = int(w * (min_ratio + random.random() * (max_ratio - min_ratio)))
StretchNewWAlt(w, min_ratio, max_ratio, k) ==
    (w * (min_ratio * RandDen - k * (max_ratio - min_ratio))) \div (10 * RandDen)

StretchNewW(w, min_ratio, max_ratio, k) ==
    (w * (min_ratio * RandDen + k * (max_ratio - min_ratio))) \div (10 * RandDen)

RandomStretchAug_apply(shape, min_ratio, max_ratio, k) ==
    LET h == shape[1]
        w == shape[2]
        new_w == StretchNewW(w, min_ratio, max_ratio, k)
    IN  [new_w |-> new_w, res |-> alb_Resize_apply(shape, h, new_w)]

(***************************************************************************)
(* CustomRandomCrop                                                        *)
(***************************************************************************)
\* random.randint(0, m): both ends included
CropAmountsAlt(m) == 1 .. m

CropAmounts(m) == 0 .. m

\* h < ori_h * 0.5 or w < ori_w * 0.5
CropRejected(h, w, ori_h, ori_w) == 2 * h < ori_h \/ 2 * w < ori_w

\* one iteration of the loop of cal_params
cal_params_sample(shape, h_top, h_bot, w_left, w_right) ==
    LET h == shape[1] - h_top - h_bot
        w == shape[2] - w_left - w_right
    IN  [accepted |-> ~CropRejected(h, w, shape[1], shape[2]),
         h_top |-> h_top, w_left |-> w_left, h |-> h, w |-> w]

\* img[h_top:h_top + h, w_left:w_left + w]
CropSlice(shape, p) == [shape EXCEPT ![1] = p.h, ![2] = p.w]

\* cv2.resize(img[...], img.shape[:2])
CustomRandomCrop_resize(shape, p) == cv2_resize(CropSlice(shape, p), <<shape[1], shape[2]>>)

(***************************************************************************)
(* TransparentOverlay                                                      *)
(***************************************************************************)
\* np.random.randint(low, high): low .. high-1, ValueError when that is empty
np_randint(low, high) == low .. high - 1

OverlayColors == {<<0, 0, 0>>, <<255, 0, 128>>}

\* the parameter records get_params_dependent_on_targets can return; none when
\* one of its randint calls raises
get_params_dependent_on_targets(shape, max_height_ratio, max_width_ratio) ==
    LET height == shape[1]
        width == shape[2]
        max_height == IntTimesTenths(height, max_height_ratio)
        max_width == IntTimesTenths(width, max_width_ratio)
    IN  {[x |-> x, y |-> y, width |-> rw, height |-> rh, color |-> c] :
            x \in np_randint(0, Max(width - max_width, 1)),
            y \in np_randint(0, Max(height - max_height, 1)),
            rw \in np_randint(0, max_width),
            rh \in np_randint(0, max_height),
            c \in OverlayColors}

\* TransparentOverlay.apply on the shape: widen to 4 channels, blend, convert back
OverlayBackChannels(original_c, c4) ==
    IF original_c # c4 THEN cvtColor_channels("COLOR_BGRA2BGR", c4) ELSE c4

TransparentOverlay_apply(shape) ==
    LET original_c == shape[3]
        c4 == IF shape[3] < 4 THEN cvtColor_channels("COLOR_BGR2BGRA", shape[3]) ELSE shape[3]
    IN  IF c4 = 0
        THEN [err |-> "cv2.error", shape |-> NoShape]
        ELSE [err |-> "none", shape |-> <<shape[1], shape[2], OverlayBackChannels(original_c, c4)>>]

(***************************************************************************)
(* ToSingleChannelGray.apply, CustomNormalize.apply                        *)
(***************************************************************************)
\* the shape returned: gray[:, :, np.newaxis] when img.shape[2] != 1, else img
GrayShapeAlt(shape) ==
    IF shape[3] # 1
    THEN IF cvtColor_channels("COLOR_RGB2GRAY", shape[3]) = 0
         THEN [err |-> "cv2.error", shape |-> NoShape]
         ELSE [err |-> "none", shape |-> shape]
    ELSE [err |-> "none", shape |-> shape]

ToSingleChannelGray_shape(shape) ==
    IF shape[3] # 1
    THEN IF cvtColor_channels("COLOR_RGB2GRAY", shape[3]) = 0
         THEN [err |-> "cv2.error", shape |-> NoShape]
         ELSE [err |-> "none", shape |-> <<shape[1], shape[2], 1>>]
    ELSE [err |-> "none", shape |-> shape]

\* the values returned (the shape is one ToSingleChannelGray_shape accepts)
GrayDataAlt(shape, data) ==
    [idx \in Indices(<<shape[1], shape[2], 1>>) |->
        IF shape[3] # 1
        THEN cvtColor_gray(data[<<idx[1], idx[2], 0>>], data[<<idx[1], idx[2], 1>>],
                           data[<<idx[1], idx[2], 2>>])
        ELSE cvtColor_gray(data[idx], 0, 0)]

ToSingleChannelGray_data(shape, data) ==
    IF shape[3] # 1
    THEN [idx \in Indices(ToSingleChannelGray_shape(shape).shape) |->
            cvtColor_gray(data[<<idx[1], idx[2], 0>>], data[<<idx[1], idx[2], 1>>],
                          data[<<idx[1], idx[2], 2>>])]
    ELSE data

\* normalize_img_array(img) of cnocr/utils.py: rescales the values, keeps the shape
normalize_img_array(shape) == [err |-> "none", shape |-> shape]

CustomNormalize_apply(shape) == normalize_img_array(shape)

(***************************************************************************)
(* transform_wrap                                                          *)
(***************************************************************************)
\* image.transpose((1, 2, 0)) and out.transpose((2, 0, 1)); transposing an array
\* that has not three axes with three axes raises ValueError
wrap_in(shape) == TransposeShape(shape, ToChannelLast)

wrap_out(shape) ==
    IF Len(shape) # 3 THEN [err |-> "ValueError", shape |-> NoShape]
    ELSE [err |-> "none", shape |-> TransposeShape(shape, ToChannelFirst)]

wrap_out_dataAlt(shape, data) == TransposeData(shape, data, ToChannelLast)

wrap_out_data(shape, data) == TransposeData(shape, data, ToChannelFirst)

(***************************************************************************)
(* The composed pipelines (p in percent).                                  *)
(***************************************************************************)
T(name, p, always_apply) == [name |-> name, p |-> p, always_apply |-> always_apply]

\* the inner alb.Compose([...], p=0.15)
TrainGroup ==
    << T("ShiftScaleRotate", 100, FALSE),
       T("GridDistortion", 50, FALSE) >>

_train_alb_transform ==
    << T("Compose", 15, FALSE),
       T("GaussNoise", 20, FALSE),
       T("RandomBrightnessContrast", 20, FALSE),
       T("ImageCompression", 30, FALSE),
       T("TransparentOverlay", 20, FALSE),
       T("Emboss", 30, FALSE),
       T("OpticalDistortion", 20, FALSE),
       T("Sharpen", 30, FALSE),
       T("ElasticTransform", 30, FALSE),
       T("RandomStretchAug", 20, FALSE),
       T("InvertImg", 30, FALSE),
       T("ToSingleChannelGray", 50, TRUE),
       T("CustomNormalize", 50, TRUE) >>

_test_alb_transform ==
    << T("ToSingleChannelGray", 50, TRUE),
       T("CustomNormalize", 50, TRUE) >>

\* the library transforms of the list: each returns an image of its input's shape
LibraryTransforms ==
    {"ShiftScaleRotate", "GridDistortion", "GaussNoise", "RandomBrightnessContrast",
     "ImageCompression", "Emboss", "OpticalDistortion", "Sharpen", "ElasticTransform",
     "InvertImg"}

\* the constructor arguments in the list, in tenths
OverlayMaxHeightRatio == 10
OverlayMaxWidthRatio == 1
StretchMinRatio == 5
StretchMaxRatio == 15

\* random.random() < p, or always_apply: the outcomes the draw can have
Gate(t) ==
    IF t.always_apply \/ t.p >= 100 THEN {TRUE}
    ELSE IF t.p <= 0 THEN {FALSE}
    ELSE BOOLEAN

\* what applying the transform of that name to an image of that shape can give
TransformResults(name, shape) ==
    IF name \in LibraryTransforms THEN {[err |-> "none", shape |-> shape]}
    ELSE IF name = "TransparentOverlay"
    THEN IF get_params_dependent_on_targets(shape, OverlayMaxHeightRatio, OverlayMaxWidthRatio) = {}
         THEN {[err |-> "ValueError", shape |-> NoShape]}
         ELSE {TransparentOverlay_apply(shape)}
    ELSE IF name = "RandomStretchAug"
    THEN {RandomStretchAug_apply(shape, StretchMinRatio, StretchMaxRatio, k).res :
            k \in 0 .. RandDen - 1}
    ELSE IF name = "ToSingleChannelGray" THEN {ToSingleChannelGray_shape(shape)}
    ELSE {CustomNormalize_apply(shape)}

Pipeline(o) == IF o = "train" THEN _train_alb_transform ELSE _test_alb_transform

\* the entry the composer is at: pos is <<i>> in the list, <<i, j>> in the group
EntryAt(o, p) == IF Len(p) = 1 THEN Pipeline(o)[p[1]] ELSE TrainGroup[p[2]]

\* the position after the entry at p
NextPos(p) ==
    IF Len(p) = 2 /\ p[2] < Len(TrainGroup) THEN <<p[1], p[2] + 1>> ELSE <<p[1] + 1>>

(***************************************************************************)
(* Inputs.                                                                 *)
(***************************************************************************)
\* channel-last images given to CustomRandomCrop (sides may be 0)
CropImages == {<<h, w, c>> : h \in 0 .. MaxSide, w \in 0 .. MaxSide, c \in {1, 3}}
CropSizes == {<<mh, mw>> : mh \in 0 .. MaxCrop, mw \in 0 .. MaxCrop}

\* channel-last images given to RandomStretchAug and TransparentOverlay
PlainImages(channels) == {<<h, w, c>> : h \in 1 .. MaxH, w \in 1 .. MaxW, c \in channels}

\* ratios in tenths: (min_ratio, max_ratio) of the stretch, min_ratio <= max_ratio
StretchRatios == {<<a, b>> \in {4, 5, 9, 10} \X {6, 10, 11, 15} : a <= b}
\* (max_height_ratio, max_width_ratio) of the overlay, each in (0, 1]
OverlayRatios == {1, 5, 10} \X {1, 5, 10}

\* arrays with values: every shape with sides 1 .. MaxDim (the channel axis up to
\* 4), filled by a pattern: 0 is constant, the others differ at every index
ValueShapes(channels) ==
    {<<a, b, c>> : a \in 1 .. MaxDim, b \in 1 .. MaxDim, c \in channels}
FlatIndex(shape, idx) == (idx[1] * shape[2] + idx[2]) * shape[3] + idx[3]
Pattern(n, shape) ==
    [idx \in Indices(shape) |-> IF n = 0 THEN 200 ELSE (61 * n + 29 * n * FlatIndex(shape, idx)) % 256]

(***************************************************************************)
(* State machine: one call at a time, from idle to done or raised.         *)
(***************************************************************************)
Init ==
    /\ pc = "idle" /\ op = "none" /\ cfg = <<>>
    /\ img = NoShape /\ pix = NoPix /\ mid = NoShape /\ midpix = NoPix
    /\ out = NoShape /\ outpix = NoPix
    /\ params = NoParams /\ pos = <<>> /\ log = <<>> /\ err = "none" /\ tries = 0

\* the call has returned or raised; the next call starts afresh
Return ==
    /\ pc \in {"done", "raised"}
    /\ pc' = "idle" /\ op' = "none" /\ cfg' = <<>>
    /\ img' = NoShape /\ pix' = NoPix /\ mid' = NoShape /\ midpix' = NoPix
    /\ out' = NoShape /\ outpix' = NoPix
    /\ params' = NoParams /\ pos' = <<>> /\ log' = <<>> /\ err' = "none" /\ tries' = 0

\* the call ends with result r = [err, shape]
Finish(r) ==
    /\ pc' = IF r.err = "none" THEN "done" ELSE "raised"
    /\ err' = r.err
    /\ out' = r.shape

\* ---- CustomRandomCrop.apply: cal_params' loop, then the resize ----
CropCall ==
    /\ pc = "idle"
    /\ \E s \in CropImages, cs \in CropSizes :
        /\ img' = s /\ cfg' = cs
    /\ pc' = "crop_loop" /\ op' = "crop"
    /\ UNCHANGED <<pix, mid, midpix, out, outpix, params, pos, log, err, tries>>

CropIterWith(h_top, h_bot, w_left, w_right) ==
    /\ pc = "crop_loop"
    /\ h_top \in CropAmounts(cfg[1]) /\ h_bot \in CropAmounts(cfg[1])
    /\ w_left \in CropAmounts(cfg[2]) /\ w_right \in CropAmounts(cfg[2])
    /\ LET s == cal_params_sample(img, h_top, h_bot, w_left, w_right)
       IN  IF s.accepted
           THEN /\ params' = s
                /\ pc' = "crop_resize"
                /\ tries' = tries
           ELSE /\ tries' = Min(tries + 1, MaxTries)
                /\ UNCHANGED <<pc, params>>
    /\ UNCHANGED <<op, cfg, img, pix, mid, midpix, out, outpix, pos, log, err>>

CropIter ==
    \E h_top, h_bot, w_left, w_right \in 0 .. MaxCrop :
        CropIterWith(h_top, h_bot, w_left, w_right)

\* an iteration whose sample is accepted
CropAccept == CropIter /\ pc' = "crop_resize"

CropResize ==
    /\ pc = "crop_resize"
    /\ Finish(CustomRandomCrop_resize(img, params))
    /\ UNCHANGED <<op, cfg, img, pix, mid, midpix, outpix, params, pos, log, tries>>

\* ---- RandomStretchAug.apply ----
StretchCall ==
    /\ pc = "idle"
    /\ \E s \in PlainImages({1, 3}), r \in StretchRatios, k \in 0 .. RandDen - 1 :
        LET a == RandomStretchAug_apply(s, r[1], r[2], k)
        IN  /\ img' = s /\ cfg' = r
            /\ params' = [k |-> k, new_w |-> a.new_w]
            /\ Finish(a.res)
    /\ op' = "stretch"
    /\ UNCHANGED <<pix, mid, midpix, outpix, pos, log, tries>>

\* ---- TransparentOverlay: get_params_dependent_on_targets, then apply ----
OverlayCall ==
    /\ pc = "idle"
    /\ \E s \in PlainImages({1, 3, 4}), r \in OverlayRatios :
        /\ img' = s /\ cfg' = r
    /\ pc' = "overlay_params" /\ op' = "overlay"
    /\ UNCHANGED <<pix, mid, midpix, out, outpix, params, pos, log, err, tries>>

OverlayGetParams ==
    /\ pc = "overlay_params"
    /\ LET ps == get_params_dependent_on_targets(img, cfg[1], cfg[2])
       IN  IF ps = {}
           THEN /\ pc' = "raised" /\ err' = "ValueError"
                /\ UNCHANGED params
           ELSE /\ \E p \in ps : params' = p
                /\ pc' = "overlay_apply"
                /\ UNCHANGED err
    /\ UNCHANGED <<op, cfg, img, pix, mid, midpix, out, outpix, pos, log, tries>>

OverlayApply ==
    /\ pc = "overlay_apply"
    /\ Finish(TransparentOverlay_apply(img))
    /\ UNCHANGED <<op, cfg, img, pix, mid, midpix, outpix, params, pos, log, tries>>

\* ---- ToSingleChannelGray.apply, applied to an image and then to its result ----
GrayValueImages == ValueShapes({1, 2, 3, 4})

GrayCall ==
    /\ pc = "idle"
    /\ \E s \in GrayValueImages, n \in 0 .. MaxPattern :
        LET r == ToSingleChannelGray_shape(s)
        IN  /\ img' = s /\ pix' = Pattern(n, s)
            /\ err' = r.err
            /\ mid' = r.shape
            /\ IF r.err = "none"
               THEN /\ midpix' = ToSingleChannelGray_data(s, Pattern(n, s))
                    /\ pc' = "gray_once"
               ELSE /\ midpix' = NoPix
                    /\ pc' = "raised"
    /\ op' = "gray"
    /\ UNCHANGED <<cfg, out, outpix, params, pos, log, tries>>

GrayAgain ==
    /\ pc = "gray_once"
    /\ LET r == ToSingleChannelGray_shape(mid)
       IN  /\ Finish(r)
           /\ outpix' = IF r.err = "none" THEN ToSingleChannelGray_data(mid, midpix) ELSE NoPix
    /\ UNCHANGED <<op, cfg, img, pix, mid, midpix, params, pos, log, tries>>

\* ---- transform_wrap(transform) with the identity as transform ----
ChannelFirstValueImages ==
    {<<c, h, w>> : c \in {1, 3}, h \in 1 .. MaxDim, w \in 1 .. MaxDim}

wrap_in_data(shape, data) == TransposeData(shape, data, ToChannelLast)

WrapIdentityCall ==
    /\ pc = "idle"
    /\ \E s \in ChannelFirstValueImages, n \in 0 .. MaxPattern :
        LET hwc == wrap_in(s)
            hwc_data == wrap_in_data(s, Pattern(n, s))
            r == wrap_out(hwc)
        IN  /\ img' = s /\ pix' = Pattern(n, s)
            /\ mid' = hwc /\ midpix' = hwc_data
            /\ Finish(r)
            /\ outpix' = IF r.err = "none" THEN wrap_out_data(hwc, hwc_data) ELSE NoPix
    /\ op' = "wrap_identity"
    /\ UNCHANGED <<cfg, params, pos, log, tries>>

\* ---- train_transform / test_transform: wrapper around the composed pipeline ----
\* channel-first; the widths lie on both sides of the sizes at which int(w * 0.1)
\* and int(w * 0.5) become 0
PipelineWidths == {1, 9, 10, MaxW}
PipelineImages == {<<c, h, w>> : c \in {1, 3}, h \in 1 .. MaxPipeH, w \in PipelineWidths}

PipeCall(o) ==
    /\ pc = "idle"
    /\ \E s \in PipelineImages :
        /\ img' = s
        /\ mid' = wrap_in(s)
    /\ pc' = "pipe" /\ op' = o
    /\ pos' = <<1>>
    /\ params' = [group |-> "pending"]
    /\ UNCHANGED <<cfg, pix, midpix, out, outpix, log, err, tries>>

TrainCall == PipeCall("train")

TestCall == PipeCall("test")

\* the composer handles the entry it is at: draws its gate and, when selected,
\* applies it to the current image (a group is entered instead)
PipeStep ==
    /\ pc = "pipe"
    /\ pos[1] <= Len(Pipeline(op))
    /\ LET t == EntryAt(op, pos)
       IN  \E g \in Gate(t) :
            IF t.name = "Compose"
            THEN /\ params' = [group |-> IF g THEN "selected" ELSE "skipped"]
                 /\ pos' = IF g THEN <<pos[1], 1>> ELSE NextPos(pos)
                 /\ UNCHANGED <<pc, mid, log, err>>
            ELSE IF g
            THEN \E r \in TransformResults(t.name, mid) :
                    IF r.err = "none"
                    THEN /\ mid' = r.shape
                         /\ log' = Append(log, t.name)
                         /\ pos' = NextPos(pos)
                         /\ UNCHANGED <<pc, err, params>>
                    ELSE /\ pc' = "raised"
                         /\ err' = r.err
                         /\ UNCHANGED <<mid, log, pos, params>>
            ELSE /\ pos' = NextPos(pos)
                 /\ UNCHANGED <<pc, mid, log, err, params>>
    /\ UNCHANGED <<op, cfg, img, pix, midpix, out, outpix, tries>>

\* the list is exhausted: the wrapper permutes the result back and returns it
PipeReturn ==
    /\ pc = "pipe"
    /\ pos[1] > Len(Pipeline(op))
    /\ Finish(wrap_out(mid))
    /\ UNCHANGED <<op, cfg, img, pix, mid, midpix, outpix, params, pos, log, tries>>

Next ==
    \/ CropCall
    \/ CropIter
    \/ CropResize
    \/ StretchCall
    \/ OverlayCall
    \/ OverlayGetParams
    \/ OverlayApply
    \/ GrayCall
    \/ GrayAgain
    \/ WrapIdentityCall
    \/ TrainCall
    \/ TestCall
    \/ PipeStep
    \/ PipeReturn
    \/ Return

Spec == Init /\ [][Next]_vars

\* The calls to CustomRandomCrop alone (calls do not interleave, so these are the
\* crop's behaviours under Spec), with fair random sampling: a loop that can draw
\* an accepted sample again and again eventually draws one
CropNext ==
    \/ CropCall
    \/ CropIter
    \/ CropResize
    \/ Return

FairSpec == Init /\ [][CropNext]_vars /\ SF_vars(CropAccept)

(***************************************************************************)
(* Properties.                                                             *)
(***************************************************************************)
Ended == pc \in {"done", "raised"}

\* C1: the rejection loop of CustomRandomCrop.cal_params does not hang: in every
\* iteration, whatever the image size (>= 0) and crop_size (>= 0), some sample is
\* accepted, and under fair sampling the loop is left with an accepted sample.
CropTerminates ==
    /\ [](pc = "crop_loop" => ENABLED CropAccept)
    /\ (pc = "crop_loop") ~> (pc = "crop_resize")

\* C1 witness: a sample was accepted after rejected ones
CropAcceptedAfterRejections ==
    op = "crop" /\ pc = "crop_resize" /\ tries = MaxTries /\ params.h_top > 0

\* C2: CustomRandomCrop.apply returns an image of the input's height and width.
CropKeepsShape ==
    (op = "crop" /\ pc = "done") => (out[1] = img[1] /\ out[2] = img[2])

\* C3 (as claimed): the image the stretch returns has the input's height, and its
\* width new_w, the one passed to the resize, lies in [min_ratio * w, max_ratio * w].
StretchWidthInRatioRange ==
    (op = "stretch" /\ pc = "done") =>
        /\ out[1] = img[1]
        /\ out[2] = params.new_w
        /\ cfg[1] * img[2] <= 10 * params.new_w
        /\ 10 * params.new_w <= cfg[2] * img[2]

\* C3 (amended): new_w = int(w * ratio) lies in [int(min_ratio * w), max_ratio * w];
\* the resize returns an image exactly when new_w >= 1, and that image has the
\* input's height and channels and width new_w.
StretchWidthTruncated ==
    (op = "stretch" /\ Ended) =>
        /\ IntTimesTenths(img[2], cfg[1]) <= params.new_w
        /\ 10 * params.new_w <= cfg[2] * img[2]
        /\ pc = "done" <=> params.new_w >= 1
        /\ pc = "done" => out = <<img[1], params.new_w, img[3]>>

\* C3 witness: a stretch whose truncated width is below min_ratio * w
StretchTruncatedBelowMin ==
    /\ op = "stretch" /\ pc = "done"
    /\ 10 * params.new_w < cfg[1] * img[2]
    /\ params.new_w # img[2]

\* C4: TransparentOverlay.apply returns an image with the input's channel count,
\* for inputs of 1, 3 or 4 channels.
OverlayKeepsChannels ==
    (op = "overlay") =>
        /\ err # "cv2.error"
        /\ pc = "done" => out[3] = img[3]

\* C5: what train_transform / test_transform return for a 3-channel channel-first
\* input is channel-first with exactly one channel (the height kept, the width
\* kept unless the stretch ran).
TransformReturnsOneChannelFirst ==
    (op \in {"train", "test"} /\ pc = "done" /\ img[1] = 3) =>
        /\ Len(out) = 3
        /\ out[1] = 1
        /\ out[2] = img[2]
        /\ (\A i \in 1 .. Len(log) : log[i] # "RandomStretchAug") => out[3] = img[3]

\* C5 witness: a training run that returned after the group, the overlay and the
\* stretch were all applied
TrainReturnedAfterGatedTransforms ==
    /\ op = "train" /\ pc = "done" /\ img[1] = 3
    /\ params.group = "selected"
    /\ \E i, j, k \in 1 .. Len(log) :
        /\ log[i] = "GridDistortion"
        /\ log[j] = "TransparentOverlay"
        /\ log[k] = "RandomStretchAug"
    /\ out[3] # img[3]

\* C6: transform_wrap around the identity returns the input: same channel-first
\* shape, same value at every index.
WrapIdentityRoundTrip ==
    (op = "wrap_identity") =>
        /\ pc # "raised"
        /\ pc = "done" => (out = img /\ outpix = pix)

\* C6 witness: the round trip of an array with three unequal sides' worth of
\* distinct values
WrapIdentityOnDistinctValues ==
    /\ op = "wrap_identity" /\ pc = "done"
    /\ img[1] = 3 /\ img[2] # img[3]
    /\ \A i, j \in DOMAIN pix : i # j => pix[i] # pix[j]
    /\ mid = <<img[2], img[3], img[1]>>

\* the transforms of the training list in the order the composer visits them
TrainOrder ==
    TrainGroup \o SubSeq(_train_alb_transform, 2, Len(_train_alb_transform))

OrderIndex(name) == CHOOSE i \in 1 .. Len(TrainOrder) : TrainOrder[i].name = name

Applied(name) == \E i \in 1 .. Len(log) : log[i] = name

\* what C7 says of the order, true at every point of a training run: the applied
\* transforms are in list order, the grouped ones only under a selected group
\* gate, the grid distortion only after shift/scale/rotate
TrainOrderKept ==
    (op = "train") =>
        /\ \A i, j \in 1 .. Len(log) : i < j => OrderIndex(log[i]) < OrderIndex(log[j])
        /\ (Applied("ShiftScaleRotate") \/ Applied("GridDistortion")) => params.group = "selected"
        /\ Applied("GridDistortion") => log[1] = "ShiftScaleRotate" /\ log[2] = "GridDistortion"

\* C7: in every run of the training pipeline on a 3-channel image the applied
\* transforms are in list order, the grouped ones gated by the group, and
\* grayscale reduction then normalize are executed, once each, as the last two
\* steps; a test-time run executes exactly those two.
PipelineEndsWithGrayNormalize ==
    (op \in {"train", "test"} /\ Ended /\ img[1] = 3) =>
        /\ TrainOrderKept
        /\ Len(log) >= 2
        /\ log[Len(log) - 1] = "ToSingleChannelGray"
        /\ log[Len(log)] = "CustomNormalize"
        /\ op = "test" => Len(log) = 2

\* C9: ToSingleChannelGray applied to its own result returns it unchanged, with
\* shape [H, W, 1]; the second application does not raise.
GrayTwiceIsGrayOnce ==
    (op = "gray") =>
        /\ pc = "raised" => img[3] = 2 /\ mid = NoShape
        /\ pc = "done" => /\ out = mid
                          /\ outpix = midpix
                          /\ out = <<img[1], img[2], 1>>

\* C9 witness: the reducer applied twice to a colour image and to a 1-channel one
GrayTwiceOnColour ==
    /\ op = "gray" /\ pc = "done" /\ img[3] = 3
    /\ \E i, j \in DOMAIN pix : pix[i] # pix[j]
    /\ \E i \in DOMAIN outpix : outpix[i] # pix[<<i[1], i[2], 0>>]

\* C10: for every image with H, W >= 1 and ratios in (0, 1] the overlay's
\* parameter sampling succeeds, the rectangle is no larger than the configured
\* maxima and lies inside the image.
OverlayParamsSucceed ==
    (op = "overlay") =>
        /\ err # "ValueError"
        /\ pc \in {"overlay_apply", "done"} =>
            /\ 0 <= params.width /\ params.width <= IntTimesTenths(img[2], cfg[2])
            /\ 0 <= params.height /\ params.height <= IntTimesTenths(img[1], cfg[1])
            /\ 0 <= params.x /\ params.x + params.width <= img[2]
            /\ 0 <= params.y /\ params.y + params.height <= img[1]

====
